---- MODULE Spec2Model ----
(***************************************************************************)
(* PeopleCounterUDP plugin: UUDPJsonReceiverComponent (game thread API,    *)
(* FUdpSocketReceiver network thread, AsyncTask hand-off to the game       *)
(* thread) and UPeopleCounterJsonLib::ParsePeopleCountPacket.              *)
(***************************************************************************)
EXTENDS Integers, Sequences, FiniteSets, TLC

\* ------------------------------------------------------------------ bounds
\* datagrams the environment sends during one behaviour
MaxDatagrams == 2
\* sockets (and receiver threads) created during one behaviour
MaxStarts == 2
\* sender sockets created during one behaviour
MaxConnects == 2
\* datagrams the sender puts on the wire during one behaviour
MaxSends == 1
\* elements of the sensors array in a packet passed to the library
MaxElems == 4

\* ------------------------------------------------------- program constants
DefaultListenPort == 7777

NoSocket == 0
NoReceiver == 0

\* Values the owner can write to the ListenAddress property.
ListenAddresses == {"0.0.0.0", "localhost"}
ListenPorts == {DefaultListenPort, 7778}

\* Values the owner can write to the sender's TargetHost and TargetPort.
DefaultTargetPort == 7780
TargetHosts == {"127.0.0.1", "192.168.1.50", "hub.local"}
TargetPorts == {DefaultTargetPort, 7781}

\* FInternetAddr::SetIp(const TCHAR*, bool& bIsValid): only a literal IP
\* address parses, a host name does not.
SetIp(addr) ==
    [bIsValid |-> addr \in {"0.0.0.0", "127.0.0.1", "192.168.1.50"}, ip |-> addr]

\* ------------------------------------------------------------ UTF-8 -> text
\* FUTF8ToTCHAR: one code point per well-formed sequence, '?' for a byte
\* that starts or continues no well-formed sequence.
RECURSIVE UTF8ToTCHAR(_)
UTF8ToTCHAR(bytes) ==
    IF bytes = <<>> THEN <<>>
    ELSE LET b0 == Head(bytes) IN
         IF b0 < 128 THEN <<b0>> \o UTF8ToTCHAR(Tail(bytes))
         ELSE IF /\ b0 >= 194 /\ b0 < 224 /\ Len(bytes) >= 2
                 /\ bytes[2] >= 128 /\ bytes[2] < 192
              THEN <<(b0 - 192) * 64 + (bytes[2] - 128)>>
                       \o UTF8ToTCHAR(Tail(Tail(bytes)))
              ELSE <<63>> \o UTF8ToTCHAR(Tail(bytes))

\* ------------------------------------------------------------ JSON reader
\* JSON values as FJsonValue: Type is one of "Object", "Array", "String",
\* "Number", "Boolean", "Null".  A text is a sequence of code points.
IsWs(c) == c \in {32, 9, 10, 13}
IsDigit(c) == c >= 48 /\ c <= 57
ParseFail == [ok |-> FALSE]

RECURSIVE SkipWs(_, _)
SkipWs(s, i) == IF i <= Len(s) /\ IsWs(s[i]) THEN SkipWs(s, i + 1) ELSE i

\* Index of the closing quote of the string whose first character is at i
\* (0 if the text ends first); a backslash takes the next character with it.
RECURSIVE StringEnd(_, _)
StringEnd(s, i) ==
    IF i > Len(s) THEN 0
    ELSE IF s[i] = 34 THEN i
    ELSE IF s[i] = 92 THEN StringEnd(s, i + 2)
    ELSE StringEnd(s, i + 1)

RECURSIVE DigitsEnd(_, _)
DigitsEnd(s, i) == IF i <= Len(s) /\ IsDigit(s[i]) THEN DigitsEnd(s, i + 1) ELSE i

RECURSIVE DigitsValue(_)
DigitsValue(ds) ==
    IF ds = << >> THEN 0
    ELSE 10 * DigitsValue(SubSeq(ds, 1, Len(ds) - 1)) + (ds[Len(ds)] - 48)

StartsWith(s, i, word) ==
    /\ i + Len(word) - 1 <= Len(s)
    /\ SubSeq(s, i, i + Len(word) - 1) = word

RECURSIVE ParseValue(_, _)
RECURSIVE ParseMembers(_, _, _)
RECURSIVE ParseElements(_, _, _)

\* The members of an object from position i on, after those in acc.
ParseMembers(s, i0, acc) ==
    LET i == SkipWs(s, i0) IN
    IF i > Len(s) \/ s[i] # 34 THEN ParseFail
    ELSE LET e == StringEnd(s, i + 1) IN
         IF e = 0 THEN ParseFail
         ELSE LET c == SkipWs(s, e + 1) IN
              IF c > Len(s) \/ s[c] # 58 THEN ParseFail
              ELSE LET v == ParseValue(s, c + 1) IN
                   IF ~v.ok THEN ParseFail
                   ELSE LET n == SkipWs(s, v.next)
                            more == Append(acc, [key |-> SubSeq(s, i + 1, e - 1),
                                                 value |-> v.value])
                        IN  IF n > Len(s) THEN ParseFail
                            ELSE IF s[n] = 125
                                 THEN [ok |-> TRUE, next |-> n + 1,
                                       value |-> [Type |-> "Object", fields |-> more]]
                            ELSE IF s[n] = 44 THEN ParseMembers(s, n + 1, more)
                            ELSE ParseFail

\* The elements of an array from position i on, after those in acc.
ParseElements(s, i0, acc) ==
    LET v == ParseValue(s, i0) IN
    IF ~v.ok THEN ParseFail
    ELSE LET n == SkipWs(s, v.next)
             more == Append(acc, v.value)
         IN  IF n > Len(s) THEN ParseFail
             ELSE IF s[n] = 93
                  THEN [ok |-> TRUE, next |-> n + 1,
                        value |-> [Type |-> "Array", elems |-> more]]
             ELSE IF s[n] = 44 THEN ParseElements(s, n + 1, more)
             ELSE ParseFail

\* One JSON value starting at (or after white space from) position i0.
ParseValue(s, i0) ==
    LET i == SkipWs(s, i0) IN
    IF i > Len(s) THEN ParseFail
    ELSE IF s[i] = 123
         THEN LET j == SkipWs(s, i + 1) IN
              IF j <= Len(s) /\ s[j] = 125
              THEN [ok |-> TRUE, next |-> j + 1,
                    value |-> [Type |-> "Object", fields |-> << >>]]
              ELSE ParseMembers(s, i + 1, << >>)
    ELSE IF s[i] = 91
         THEN LET j == SkipWs(s, i + 1) IN
              IF j <= Len(s) /\ s[j] = 93
              THEN [ok |-> TRUE, next |-> j + 1,
                    value |-> [Type |-> "Array", elems |-> << >>]]
              ELSE ParseElements(s, i + 1, << >>)
    ELSE IF s[i] = 34
         THEN LET e == StringEnd(s, i + 1) IN
              IF e = 0 THEN ParseFail
              ELSE [ok |-> TRUE, next |-> e + 1,
                    value |-> [Type |-> "String", str |-> SubSeq(s, i + 1, e - 1)]]
    ELSE IF IsDigit(s[i]) \/ (s[i] = 45 /\ i < Len(s) /\ IsDigit(s[i + 1]))
         THEN LET neg == s[i] = 45
                  w0 == IF neg THEN i + 1 ELSE i
                  w1 == DigitsEnd(s, w0)
                  hasFrac == w1 < Len(s) /\ s[w1] = 46 /\ IsDigit(s[w1 + 1])
                  f1 == IF hasFrac THEN DigitsEnd(s, w1 + 1) ELSE w1
              IN  [ok |-> TRUE, next |-> f1,
                   value |-> [Type |-> "Number", neg |-> neg,
                              whole |-> DigitsValue(SubSeq(s, w0, w1 - 1)),
                              frac |-> IF hasFrac THEN SubSeq(s, w1 + 1, f1 - 1)
                                       ELSE << >>]]
    ELSE IF StartsWith(s, i, <<116, 114, 117, 101>>)
         THEN [ok |-> TRUE, next |-> i + 4, value |-> [Type |-> "Boolean", b |-> TRUE]]
    ELSE IF StartsWith(s, i, <<102, 97, 108, 115, 101>>)
         THEN [ok |-> TRUE, next |-> i + 5, value |-> [Type |-> "Boolean", b |-> FALSE]]
    ELSE IF StartsWith(s, i, <<110, 117, 108, 108>>)
         THEN [ok |-> TRUE, next |-> i + 4, value |-> [Type |-> "Null"]]
    ELSE ParseFail

\* FJsonSerializer::Deserialize(Reader, TSharedPtr<FJsonObject>& Root): the
\* whole text is one JSON value; Root is set only when that value is an object.
Deserialize(JsonString) ==
    LET v == ParseValue(JsonString, 1) IN
    IF ~v.ok THEN [ret |-> FALSE, RootValid |-> FALSE]
    ELSE IF SkipWs(JsonString, v.next) <= Len(JsonString)
         THEN [ret |-> FALSE, RootValid |-> FALSE]
    ELSE IF v.value.Type # "Object" THEN [ret |-> FALSE, RootValid |-> FALSE]
    ELSE [ret |-> TRUE, RootValid |-> TRUE, Root |-> v.value]

\* FString comparison (operator==, and the key comparison of a TMap keyed by
\* FString) ignores the case of letters.
ToLower(c) == IF c >= 65 /\ c <= 90 THEN c + 32 ELSE c
SameText(a, b) ==
    /\ Len(a) = Len(b)
    /\ \A i \in 1..Len(a) : ToLower(a[i]) = ToLower(b[i])

\* FJsonObject field lookup: the last member with that name, if any.
HasField(obj, name) ==
    \E k \in 1..Len(obj.fields) : SameText(obj.fields[k].key, name)
GetField(obj, name) ==
    LET k == CHOOSE k \in 1..Len(obj.fields) :
                 /\ SameText(obj.fields[k].key, name)
                 /\ \A m \in k + 1..Len(obj.fields) :
                        ~SameText(obj.fields[m].key, name)
    IN  obj.fields[k].value

\* Field names, as code points.
KeyTimestamp == <<116, 105, 109, 101, 115, 116, 97, 109, 112>>
KeySensors == <<115, 101, 110, 115, 111, 114, 115>>
KeyId == <<105, 100>>
KeyCount == <<99, 111, 117, 110, 116>>

\* The decimal digits of a natural number.
RECURSIVE NatText(_)
NatText(n) ==
    IF n < 10 THEN <<48 + n>> ELSE NatText(n \div 10) \o <<48 + (n % 10)>>

\* Fraction digits without trailing zeros.
RECURSIVE TrimZeros(_)
TrimZeros(ds) ==
    IF ds # << >> /\ ds[Len(ds)] = 48
    THEN TrimZeros(SubSeq(ds, 1, Len(ds) - 1)) ELSE ds

\* FJsonValueNumber::TryGetString: the number written out, with no
\* fraction digits beyond those it needs.
NumberText(v) ==
    (IF v.neg THEN <<45>> ELSE << >>) \o NatText(v.whole)
        \o (IF TrimZeros(v.frac) # << >> THEN <<46>> \o TrimZeros(v.frac)
            ELSE << >>)

\* TryGetStringField(name, Out): Out is written for a string field, and for
\* a number or boolean field with the value written as text; an array, an
\* object, null or a missing field leaves Out alone.
TryGetStringField(obj, name, default) ==
    IF ~HasField(obj, name) THEN default
    ELSE LET f == GetField(obj, name) IN
         IF f.Type = "String" THEN f.str
         ELSE IF f.Type = "Number" THEN NumberText(f)
         ELSE IF f.Type = "Boolean"
              THEN (IF f.b THEN <<116, 114, 117, 101>>
                    ELSE <<102, 97, 108, 115, 101>>)
         ELSE default

\* FString::IsNumeric: an optional sign, then digits with at most one point.
Unsigned(str) ==
    IF str # << >> /\ str[1] \in {43, 45} THEN Tail(str) ELSE str
IsNumeric(str) ==
    /\ str # << >>
    /\ \A i \in 1..Len(Unsigned(str)) :
           IsDigit(Unsigned(str)[i]) \/ Unsigned(str)[i] = 46
    /\ Cardinality({i \in 1..Len(Unsigned(str)) : Unsigned(str)[i] = 46}) <= 1

\* FJsonValueString::TryGetNumber: the number a numeric string spells.
StringAsNumber(str) ==
    LET u == Unsigned(str)
        w1 == DigitsEnd(u, 1)
    IN  [Type |-> "Number", neg |-> str[1] = 45,
         whole |-> DigitsValue(SubSeq(u, 1, w1 - 1)),
         frac |-> SubSeq(u, w1 + 1, Len(u))]

Zero == [Type |-> "Number", neg |-> FALSE, whole |-> 0, frac |-> << >>]

\* int32 from a number: rounded half away from zero (values within the
\* int32 range).
NumberAsInt(v) ==
    LET up == v.frac # << >> /\ v.frac[1] >= 53
        mag == v.whole + (IF up THEN 1 ELSE 0)
    IN  IF v.neg THEN 0 - mag ELSE mag

\* TryGetNumberField(name, Out): Out is written for a number field, for a
\* boolean field (1 or 0) and for a string field that is numeric; anything
\* else leaves Out alone.
TryGetNumberField(obj, name, default) ==
    IF ~HasField(obj, name) THEN default
    ELSE LET f == GetField(obj, name) IN
         IF f.Type = "Number" THEN f
         ELSE IF f.Type = "Boolean"
              THEN [Zero EXCEPT !.whole = IF f.b THEN 1 ELSE 0]
         ELSE IF f.Type = "String" /\ IsNumeric(f.str) THEN StringAsNumber(f.str)
         ELSE default

\* OutSensors.Add(Id, Count): a pair whose key equals Id (letter case
\* ignored) is replaced, key and value.
MapAdd(OutSensors, Id, Count) ==
    LET kept == {k \in DOMAIN OutSensors : ~SameText(k, Id)} IN
    [k \in kept \cup {Id} |-> IF k = Id THEN Count ELSE OutSensors[k]]

\* The loop over the sensors array.
RECURSIVE AddSensors(_, _)
AddSensors(elems, OutSensors) ==
    IF elems = << >> THEN OutSensors
    ELSE LET V == Head(elems) IN
         IF V.Type # "Object" THEN AddSensors(Tail(elems), OutSensors)
         ELSE LET Id == TryGetStringField(V, KeyId, << >>)
                  Count == NumberAsInt(TryGetNumberField(V, KeyCount, Zero))
              IN  IF Id # << >>
                  THEN AddSensors(Tail(elems), MapAdd(OutSensors, Id, Count))
                  ELSE AddSensors(Tail(elems), OutSensors)

\* Variant: a packet without a numeric timestamp is refused.
ParsePeopleCountPacketNeedsTimestamp(JsonString) ==
    LET d == Deserialize(JsonString) IN
    IF ~d.ret \/ ~d.RootValid
    THEN [ret |-> FALSE, OutSensors |-> << >>, OutTimestamp |-> Zero]
    ELSE IF ~HasField(d.Root, KeyTimestamp)
            \/ GetField(d.Root, KeyTimestamp).Type # "Number"
    THEN [ret |-> FALSE, OutSensors |-> << >>, OutTimestamp |-> Zero]
    ELSE [ret |-> TRUE,
          OutTimestamp |-> GetField(d.Root, KeyTimestamp),
          OutSensors |->
              IF HasField(d.Root, KeySensors) /\ GetField(d.Root, KeySensors).Type = "Array"
              THEN AddSensors(GetField(d.Root, KeySensors).elems, << >>)
              ELSE << >>]

\* Variant: a packet without a sensors array is refused.
ParsePeopleCountPacketStrict(JsonString) ==
    LET d == Deserialize(JsonString) IN
    IF ~d.ret \/ ~d.RootValid
    THEN [ret |-> FALSE, OutSensors |-> << >>, OutTimestamp |-> Zero]
    ELSE IF ~HasField(d.Root, KeySensors)
            \/ GetField(d.Root, KeySensors).Type # "Array"
    THEN [ret |-> FALSE, OutSensors |-> << >>, OutTimestamp |-> Zero]
    ELSE [ret |-> TRUE,
          OutTimestamp |-> TryGetNumberField(d.Root, KeyTimestamp, Zero),
          OutSensors |-> AddSensors(GetField(d.Root, KeySensors).elems, << >>)]

\* UPeopleCounterJsonLib::ParsePeopleCountPacket(JsonString, OutSensors,
\* OutTimestamp): return value and the two out parameters.
ParsePeopleCountPacket(JsonString) ==
    LET d == Deserialize(JsonString) IN
    IF ~d.ret \/ ~d.RootValid
    THEN [ret |-> FALSE, OutSensors |-> << >>, OutTimestamp |-> Zero]
    ELSE [ret |-> TRUE,
          OutTimestamp |-> TryGetNumberField(d.Root, KeyTimestamp, Zero),
          OutSensors |->
              IF HasField(d.Root, KeySensors) /\ GetField(d.Root, KeySensors).Type = "Array"
              THEN AddSensors(GetField(d.Root, KeySensors).elems, << >>)
              ELSE << >>]

\* Datagram payloads the hub (or anyone else) can send: "{}", "[]", and "{"
\* followed by a byte that is not UTF-8.
Payloads == { <<123, 125>>, <<91, 93>>, <<123, 255>> }

VARIABLES
    \* UUDPJsonReceiverComponent properties and fields
    ListenAddress, ListenPort, bAutoStart,
    SocketReceiver, ListenSocket, bRunning,
    \* operating system: open sockets (id -> endpoint, receive buffer)
    sockets,
    \* FUdpSocketReceiver objects and their threads (id -> pc, bStopping, ...)
    receivers,
    \* game thread: position, queued AsyncTasks, broadcasts made so far
    gamePc, gameQueue, delivered,
    \* bookkeeping: objects created, datagrams sent, the last API call
    nCreated, nSent, lastCall,
    \* UUDPJsonSenderComponent properties and fields
    TargetHost, TargetPort, bAutoConnect, SendSocket, bConnected,
    \* operating system: open sender sockets; datagrams put on the wire
    sendSockets, wire,
    \* bookkeeping: sender sockets created, the last sender API call
    nSendCreated, lastSenderCall,
    \* a caller of ParsePeopleCountPacket: its argument and what it got back
    packet, parsed

receiverVars == <<ListenAddress, ListenPort, bAutoStart, SocketReceiver,
                  ListenSocket, bRunning, sockets, receivers, gamePc,
                  gameQueue, delivered, nCreated, nSent, lastCall>>

senderVars == <<TargetHost, TargetPort, bAutoConnect, SendSocket, bConnected,
                sendSockets, wire, nSendCreated, lastSenderCall>>

libVars == <<packet, parsed>>

vars == <<receiverVars, senderVars, libVars>>

\* What a step of the receiver leaves alone: the sender component and the
\* callers of the library.
elsewhere == <<senderVars, libVars>>

config == <<ListenAddress, ListenPort, bAutoStart>>
component == <<SocketReceiver, ListenSocket, bRunning>>

NoCall == [op |-> "None", wasRunning |-> FALSE, ret |-> FALSE, bindFailed |-> FALSE]

InitReceiver ==
    /\ ListenAddress = "0.0.0.0"
    /\ ListenPort = DefaultListenPort
    /\ bAutoStart = TRUE
    /\ SocketReceiver = NoReceiver
    /\ ListenSocket = NoSocket
    /\ bRunning = FALSE
    /\ sockets = << >>
    /\ receivers = << >>
    /\ gamePc = "idle"
    /\ gameQueue = << >>
    /\ delivered = << >>
    /\ nCreated = 0
    /\ nSent = 0
    /\ lastCall = NoCall

\* UUDPJsonSenderComponent after construction.
NoSenderCall ==
    [op |-> "None", ret |-> FALSE, hadSocket |-> FALSE, bIsValid |-> FALSE,
     buildFailed |-> FALSE, attempts |-> 0, bOK |-> FALSE, BytesSent |-> 0,
     Length |-> 0]

InitSender ==
    /\ TargetHost = "127.0.0.1"
    /\ TargetPort = DefaultTargetPort
    /\ bAutoConnect = TRUE
    /\ SendSocket = NoSocket
    /\ bConnected = FALSE
    /\ sendSockets = {}
    /\ wire = << >>
    /\ nSendCreated = 0
    /\ lastSenderCall = NoSenderCall

\* Nobody has called the library.
NoPacket == [kind |-> "none", text |-> << >>]
NotParsed == [called |-> FALSE]

InitLib ==
    /\ packet = NoPacket
    /\ parsed = NotParsed

Init == InitReceiver /\ InitSender /\ InitLib

\* --------------------------------------------------------------- helpers
Without(f, k) == [x \in (DOMAIN f) \ {k} |-> f[x]]

\* IsRunning()
IsRunning == bRunning

\* The thread of receiver r runs (has been started and has not returned).
ThreadLive(r) == r \in DOMAIN receivers /\ receivers[r].pc \in {"poll", "pending", "handle"}

\* --------------------------------------------------- game thread: the API
\* Variant: the bind address is not validated.
CreateSocketNoValidation(bBuilt) ==
    IF ListenSocket # NoSocket
    THEN [ret |-> TRUE, ListenSocket |-> ListenSocket, sockets |-> sockets,
          bindFailed |-> FALSE]
    ELSE IF ~bBuilt
    THEN [ret |-> FALSE, ListenSocket |-> NoSocket, sockets |-> sockets,
          bindFailed |-> TRUE]
    ELSE LET s == nCreated + 1 IN
         [ret |-> TRUE, ListenSocket |-> s, bindFailed |-> FALSE,
          sockets |-> sockets @@
              (s :> [addr |-> SetIp(ListenAddress).ip, port |-> ListenPort, buf |-> << >>])]

\* CreateSocket(): the resulting ListenSocket, socket table and return value.
\* bBuilt: whether FUdpSocketBuilder, if it is reached, returns a socket
\* (it returns none when the socket cannot be created or bound).
CreateSocket(bBuilt) ==
    IF ListenSocket # NoSocket
    THEN [ret |-> TRUE, ListenSocket |-> ListenSocket, sockets |-> sockets,
          bindFailed |-> FALSE]
    ELSE IF ~SetIp(ListenAddress).bIsValid
    THEN [ret |-> FALSE, ListenSocket |-> NoSocket, sockets |-> sockets,
          bindFailed |-> FALSE]
    ELSE IF ~bBuilt
    THEN [ret |-> FALSE, ListenSocket |-> NoSocket, sockets |-> sockets,
          bindFailed |-> TRUE]
    ELSE LET s == nCreated + 1 IN
         [ret |-> TRUE, ListenSocket |-> s, bindFailed |-> FALSE,
          sockets |-> sockets @@
              (s :> [addr |-> SetIp(ListenAddress).ip, port |-> ListenPort, buf |-> << >>])]

\* Variant: bRunning is raised before CreateSocket() is tried.
StartReceiverCallRunningFirst(bBuilt) ==
    IF bRunning
    THEN /\ lastCall' = [op |-> "StartReceiver", wasRunning |-> TRUE, ret |-> TRUE,
                         bindFailed |-> FALSE]
         /\ UNCHANGED <<component, sockets, receivers, nCreated>>
    ELSE LET cs == CreateSocket(bBuilt) IN
         IF ~cs.ret
         THEN /\ lastCall' = [op |-> "StartReceiver", wasRunning |-> FALSE, ret |-> FALSE,
                              bindFailed |-> cs.bindFailed]
              /\ ListenSocket' = cs.ListenSocket
              /\ sockets' = cs.sockets
              /\ bRunning' = TRUE
              /\ UNCHANGED <<SocketReceiver, receivers, nCreated>>
         ELSE LET r == nCreated + 1 IN
              /\ ListenSocket' = cs.ListenSocket
              /\ sockets' = cs.sockets
              /\ SocketReceiver' = r
              /\ receivers' = receivers @@
                     (r :> [pc |-> "poll", bStopping |-> FALSE,
                            sock |-> cs.ListenSocket, cur |-> << >>])
              /\ bRunning' = TRUE
              /\ nCreated' = nCreated + 1
              /\ lastCall' = [op |-> "StartReceiver", wasRunning |-> FALSE, ret |-> TRUE,
                              bindFailed |-> FALSE]

\* Variant: no early return when already running.
StartReceiverCallNoGuard(bBuilt) ==
    LET cs == CreateSocket(bBuilt) IN
    IF ~cs.ret
    THEN /\ lastCall' = [op |-> "StartReceiver", wasRunning |-> bRunning, ret |-> FALSE,
                         bindFailed |-> cs.bindFailed]
         /\ ListenSocket' = cs.ListenSocket
         /\ sockets' = cs.sockets
         /\ UNCHANGED <<SocketReceiver, bRunning, receivers, nCreated>>
    ELSE LET r == nCreated + 1 IN
         /\ ListenSocket' = cs.ListenSocket
         /\ sockets' = cs.sockets
         /\ SocketReceiver' = r
         /\ receivers' = receivers @@
                (r :> [pc |-> "poll", bStopping |-> FALSE,
                       sock |-> cs.ListenSocket, cur |-> << >>])
         /\ bRunning' = TRUE
         /\ nCreated' = nCreated + 1
         /\ lastCall' = [op |-> "StartReceiver", wasRunning |-> bRunning, ret |-> TRUE,
                         bindFailed |-> FALSE]

\* StartReceiver(), the whole call.
StartReceiverCall(bBuilt) ==
    IF bRunning
    THEN /\ lastCall' = [op |-> "StartReceiver", wasRunning |-> TRUE, ret |-> TRUE,
                         bindFailed |-> FALSE]
         /\ UNCHANGED <<component, sockets, receivers, nCreated>>
    ELSE LET cs == CreateSocket(bBuilt) IN
         IF ~cs.ret
         THEN /\ lastCall' = [op |-> "StartReceiver", wasRunning |-> FALSE, ret |-> FALSE,
                              bindFailed |-> cs.bindFailed]
              /\ ListenSocket' = cs.ListenSocket
              /\ sockets' = cs.sockets
              /\ UNCHANGED <<SocketReceiver, bRunning, receivers, nCreated>>
         ELSE LET r == nCreated + 1 IN
              /\ ListenSocket' = cs.ListenSocket
              /\ sockets' = cs.sockets
              /\ SocketReceiver' = r
              /\ receivers' = receivers @@
                     (r :> [pc |-> "poll", bStopping |-> FALSE,
                            sock |-> cs.ListenSocket, cur |-> << >>])
              /\ bRunning' = TRUE
              /\ nCreated' = nCreated + 1
              /\ lastCall' = [op |-> "StartReceiver", wasRunning |-> FALSE, ret |-> TRUE,
                              bindFailed |-> FALSE]

\* Variant: the pointers are cleared but the receiver object is not deleted
\* and the socket is not closed.
DestroySocketCloseLeak ==
    /\ SocketReceiver' = NoReceiver
    /\ ListenSocket' = NoSocket
    /\ gamePc' = "idle"
    /\ UNCHANGED <<receivers, sockets>>

\* DestroySocket() from the join on: delete SocketReceiver has returned (or
\* there was none), then the socket is closed and destroyed.
DestroySocketClose ==
    /\ receivers' = IF SocketReceiver # NoReceiver
                    THEN Without(receivers, SocketReceiver) ELSE receivers
    /\ SocketReceiver' = NoReceiver
    /\ sockets' = IF ListenSocket # NoSocket
                  THEN Without(sockets, ListenSocket) ELSE sockets
    /\ ListenSocket' = NoSocket
    /\ gamePc' = "idle"

\* Variant: the socket is closed and the pointers are cleared at once; the
\* receiver thread is neither told to stop nor waited for.
DestroySocketBeginNoJoin ==
    /\ sockets' = IF ListenSocket # NoSocket
                  THEN Without(sockets, ListenSocket) ELSE sockets
    /\ ListenSocket' = NoSocket
    /\ SocketReceiver' = NoReceiver
    /\ gamePc' = "idle"
    /\ UNCHANGED receivers

\* DestroySocket() up to the join: FUdpSocketReceiver::Stop() raises
\* bStopping; the destructor then waits for the thread.
DestroySocketBegin ==
    IF SocketReceiver # NoReceiver
    THEN /\ receivers' = [receivers EXCEPT ![SocketReceiver].bStopping = TRUE]
         /\ gamePc' = "join"
         /\ UNCHANGED <<SocketReceiver, ListenSocket, sockets>>
    ELSE DestroySocketClose

\* Variant: no early return and no null tests; SocketReceiver->Stop() on a
\* null pointer ends the game thread.
StopReceiverCallUnguarded ==
    /\ lastCall' = [op |-> "StopReceiver", wasRunning |-> bRunning, ret |-> TRUE,
                        bindFailed |-> FALSE]
    /\ bRunning' = FALSE
    /\ IF SocketReceiver # NoReceiver
       THEN DestroySocketBegin
       ELSE /\ gamePc' = "crashed"
            /\ UNCHANGED <<SocketReceiver, ListenSocket, sockets, receivers>>

\* StopReceiver() up to the point where it blocks in the join.
StopReceiverCall ==
    IF ~bRunning
    THEN /\ lastCall' = [op |-> "StopReceiver", wasRunning |-> FALSE, ret |-> TRUE,
                         bindFailed |-> FALSE]
         /\ UNCHANGED <<component, sockets, receivers, gamePc>>
    ELSE /\ lastCall' = [op |-> "StopReceiver", wasRunning |-> TRUE, ret |-> TRUE,
                         bindFailed |-> FALSE]
         /\ bRunning' = FALSE
         /\ DestroySocketBegin

StartReceiver ==
    /\ gamePc = "idle"
    /\ bRunning \/ nCreated < MaxStarts
    /\ \E bBuilt \in BOOLEAN : StartReceiverCall(bBuilt)
    /\ UNCHANGED <<config, gamePc, gameQueue, delivered, nSent>>
    /\ UNCHANGED elsewhere

StopReceiver ==
    /\ gamePc = "idle"
    /\ StopReceiverCall
    /\ UNCHANGED <<config, gameQueue, delivered, nCreated, nSent>>
    /\ UNCHANGED elsewhere

\* The join of the receiver thread returns and DestroySocket() runs on.
StopReceiverJoin ==
    /\ gamePc = "join"
    /\ ~ThreadLive(SocketReceiver)
    /\ DestroySocketClose
    /\ UNCHANGED <<config, bRunning, gameQueue, delivered, nCreated,
                   nSent, lastCall>>
    /\ UNCHANGED elsewhere

\* Variant: BeginPlay starts the receiver whatever bAutoStart says.
BeginPlayAlwaysStarts ==
    /\ gamePc = "idle"
    /\ bRunning \/ nCreated < MaxStarts
    /\ \E bBuilt \in BOOLEAN : StartReceiverCall(bBuilt)
    /\ UNCHANGED <<config, gamePc, gameQueue, delivered, nSent>>
    /\ UNCHANGED elsewhere

BeginPlay ==
    /\ gamePc = "idle"
    /\ IF bAutoStart
       THEN /\ bRunning \/ nCreated < MaxStarts
            /\ \E bBuilt \in BOOLEAN : StartReceiverCall(bBuilt)
       ELSE UNCHANGED <<component, sockets, receivers, nCreated, lastCall>>
    /\ UNCHANGED <<config, gamePc, gameQueue, delivered, nSent>>
    /\ UNCHANGED elsewhere

EndPlay ==
    /\ gamePc = "idle"
    /\ StopReceiverCall
    /\ UNCHANGED <<config, gameQueue, delivered, nCreated, nSent>>
    /\ UNCHANGED elsewhere

\* The owner edits the properties between calls.
SetListenAddress(a) ==
    /\ gamePc = "idle"
    /\ a # ListenAddress
    /\ ListenAddress' = a
    /\ UNCHANGED <<ListenPort, bAutoStart, component, sockets, receivers,
                   gamePc, gameQueue, delivered, nCreated, nSent, lastCall>>
    /\ UNCHANGED elsewhere

SetListenPort(p) ==
    /\ gamePc = "idle"
    /\ p # ListenPort
    /\ ListenPort' = p
    /\ UNCHANGED <<ListenAddress, bAutoStart, component, sockets, receivers,
                   gamePc, gameQueue, delivered, nCreated, nSent, lastCall>>
    /\ UNCHANGED elsewhere

SetAutoStart(b) ==
    /\ gamePc = "idle"
    /\ b # bAutoStart
    /\ bAutoStart' = b
    /\ UNCHANGED <<ListenAddress, ListenPort, component, sockets, receivers,
                   gamePc, gameQueue, delivered, nCreated, nSent, lastCall>>
    /\ UNCHANGED elsewhere

\* Variant: the task queue is served newest first.
GameThreadTaskNewestFirst ==
    /\ gamePc = "idle"
    /\ gameQueue # << >>
    /\ LET task == gameQueue[Len(gameQueue)] IN
       delivered' = Append(delivered,
           [id |-> task.id, bytes |-> task.bytes, JsonStr |-> task.JsonStr,
            thread |-> "GameThread", backlog |-> Len(gameQueue) - 1])
    /\ gameQueue' = SubSeq(gameQueue, 1, Len(gameQueue) - 1)
    /\ UNCHANGED <<config, component, sockets, receivers, gamePc,
                   nCreated, nSent, lastCall>>
    /\ UNCHANGED elsewhere

\* The game thread runs the oldest queued AsyncTask: the lambda broadcasts
\* OnJsonReceived with the captured string.
GameThreadTask ==
    /\ gamePc = "idle"
    /\ gameQueue # << >>
    /\ delivered' = Append(delivered,
           [id |-> Head(gameQueue).id, bytes |-> Head(gameQueue).bytes,
            JsonStr |-> Head(gameQueue).JsonStr, thread |-> "GameThread", backlog |-> Len(gameQueue) - 1])
    /\ gameQueue' = Tail(gameQueue)
    /\ UNCHANGED <<config, component, sockets, receivers, gamePc,
                   nCreated, nSent, lastCall>>
    /\ UNCHANGED elsewhere

\* ------------------------------------------------------------ environment
\* A datagram reaches an open socket and waits in its receive buffer.
DatagramArrives(s, p) ==
    /\ nSent < MaxDatagrams
    /\ s \in DOMAIN sockets
    /\ nSent' = nSent + 1
    /\ sockets' = [sockets EXCEPT ![s].buf = Append(@, [id |-> nSent + 1, bytes |-> p])]
    /\ UNCHANGED <<config, component, receivers, gamePc, gameQueue,
                   delivered, nCreated, lastCall>>
    /\ UNCHANGED elsewhere

\* ---------------------------------------------------- the receiver thread
netUnchanged == <<config, component, gamePc, delivered, nCreated, nSent, lastCall,
                  elsewhere>>

\* FUdpSocketReceiver::Run: bStopping is read at the top of the loop.
ReceiverExit(r) ==
    /\ r \in DOMAIN receivers
    /\ receivers[r].pc = "poll"
    /\ receivers[r].bStopping
    /\ receivers' = [receivers EXCEPT ![r].pc = "exited"]
    /\ UNCHANGED <<netUnchanged, sockets, gameQueue>>

\* Update(): Socket->Wait returns because a datagram is pending.
ReceiverWait(r) ==
    /\ r \in DOMAIN receivers
    /\ receivers[r].pc = "poll"
    /\ ~receivers[r].bStopping
    /\ receivers[r].sock \in DOMAIN sockets
    /\ sockets[receivers[r].sock].buf # << >>
    /\ receivers' = [receivers EXCEPT ![r].pc = "pending"]
    /\ UNCHANGED <<netUnchanged, sockets, gameQueue>>

\* Update(): while HasPendingData, RecvFrom reads the oldest datagram.
ReceiverRecv(r) ==
    /\ r \in DOMAIN receivers
    /\ receivers[r].pc = "pending"
    /\ receivers[r].sock \in DOMAIN sockets
    /\ LET s == receivers[r].sock IN
       IF sockets[s].buf = << >>
       THEN /\ receivers' = [receivers EXCEPT ![r].pc = "poll"]
            /\ UNCHANGED sockets
       ELSE /\ receivers' = [receivers EXCEPT ![r].pc = "handle",
                                              ![r].cur = <<Head(sockets[s].buf)>>]
            /\ sockets' = [sockets EXCEPT ![s].buf = Tail(@)]
    /\ UNCHANGED <<netUnchanged, gameQueue>>

\* Variant: the receiver thread broadcasts OnJsonReceived itself.
HandlePacketDirect(r) ==
    /\ r \in DOMAIN receivers
    /\ receivers[r].pc = "handle"
    /\ LET Data == receivers[r].cur[1]
           JsonStr == UTF8ToTCHAR(Data.bytes)
       IN  delivered' = Append(delivered,
               [id |-> Data.id, bytes |-> Data.bytes, JsonStr |-> JsonStr,
                thread |-> "NetThread", backlog |-> Len(gameQueue)])
    /\ receivers' = [receivers EXCEPT ![r].pc = "pending", ![r].cur = << >>]
    /\ UNCHANGED <<config, component, gamePc, nCreated, nSent, lastCall,
                   sockets, gameQueue>>
    /\ UNCHANGED elsewhere

\* Variant: a payload that does not decode is dropped by the receiver.
HandlePacketDropUndecodable(r) ==
    /\ r \in DOMAIN receivers
    /\ receivers[r].pc = "handle"
    /\ LET Data == receivers[r].cur[1]
           JsonStr == UTF8ToTCHAR(Data.bytes)
       IN  gameQueue' = IF ParsePeopleCountPacket(JsonStr).ret
                        THEN Append(gameQueue, [id |-> Data.id, bytes |-> Data.bytes, JsonStr |-> JsonStr])
                        ELSE gameQueue
    /\ receivers' = [receivers EXCEPT ![r].pc = "pending", ![r].cur = << >>]
    /\ UNCHANGED <<config, component, gamePc, nCreated, nSent, lastCall,
                   sockets, delivered>>
    /\ UNCHANGED elsewhere

\* Variant: a payload that does not decode ends the receive loop.
HandlePacketStopOnMalformed(r) ==
    /\ r \in DOMAIN receivers
    /\ receivers[r].pc = "handle"
    /\ LET Data == receivers[r].cur[1]
           JsonStr == UTF8ToTCHAR(Data.bytes)
       IN  /\ gameQueue' = Append(gameQueue, [id |-> Data.id, bytes |-> Data.bytes, JsonStr |-> JsonStr])
           /\ receivers' = [receivers EXCEPT
                  ![r].pc = IF ParsePeopleCountPacket(JsonStr).ret
                            THEN "pending" ELSE "exited",
                  ![r].cur = << >>]
    /\ UNCHANGED <<config, component, gamePc, nCreated, nSent, lastCall,
                   sockets, delivered>>
    /\ UNCHANGED elsewhere

\* HandlePacket(Data, Endpoint), called by the receiver thread: copy the
\* bytes, convert them to an FString, queue the broadcast for the game thread.
HandlePacket(r) ==
    /\ r \in DOMAIN receivers
    /\ receivers[r].pc = "handle"
    /\ LET Data == receivers[r].cur[1]
           JsonStr == UTF8ToTCHAR(Data.bytes)
       IN  gameQueue' = Append(gameQueue, [id |-> Data.id, bytes |-> Data.bytes, JsonStr |-> JsonStr])
    /\ receivers' = [receivers EXCEPT ![r].pc = "pending", ![r].cur = << >>]
    /\ UNCHANGED <<netUnchanged, sockets, delivered>>

\* The socket fails under the loop and the thread returns.
ReceiverSocketFailure(r) ==
    /\ r \in DOMAIN receivers
    /\ receivers[r].pc \in {"poll", "pending"}
    /\ receivers' = [receivers EXCEPT ![r].pc = "failed"]
    /\ UNCHANGED <<netUnchanged, sockets, gameQueue>>

\* ---------------------------------------------------------- specification
Receivers == 1..MaxStarts + 1

GameThread ==
    \/ StartReceiver
    \/ StopReceiver
    \/ StopReceiverJoin
    \/ BeginPlay
    \/ EndPlay
    \/ \E a \in ListenAddresses : SetListenAddress(a)
    \/ \E p \in ListenPorts : SetListenPort(p)
    \/ \E b \in BOOLEAN : SetAutoStart(b)
    \/ GameThreadTask

NetThread ==
    \E r \in Receivers :
        \/ ReceiverExit(r)
        \/ ReceiverWait(r)
        \/ ReceiverRecv(r)
        \/ HandlePacket(r)

Environment ==
    \E s \in Receivers, p \in Payloads : DatagramArrives(s, p)

NextNoFailure == GameThread \/ NetThread \/ Environment

Next == NextNoFailure \/ \E r \in Receivers : ReceiverSocketFailure(r)

Spec == Init /\ [][Next]_vars

SpecNoFailure == Init /\ [][NextNoFailure]_vars

\* Start, stop, datagrams and the two threads, with the scheduling the engine
\* gives: the receiver thread keeps running its loop, and the game thread
\* keeps running the tasks queued for it.
NextLive ==
    \/ StartReceiver
    \/ StopReceiver
    \/ StopReceiverJoin
    \/ GameThreadTask
    \/ NetThread
    \/ Environment

SpecLive ==
    /\ Init
    /\ [][NextLive]_vars
    /\ WF_vars(NetThread)
    /\ WF_vars(GameThreadTask)

\* The same, and a game thread blocked in the join of DestroySocket() goes on
\* once the receiver thread has returned.
SpecStop == SpecLive /\ WF_vars(StopReceiverJoin)

\* ================================================= UUDPJsonSenderComponent
\* FTCHARToUTF8: one to three bytes per code point of the FString.
RECURSIVE TCHARToUTF8(_)
TCHARToUTF8(str) ==
    IF str = << >> THEN << >>
    ELSE LET c == Head(str) IN
         (IF c < 128 THEN <<c>>
          ELSE IF c < 2048 THEN <<192 + (c \div 64), 128 + (c % 64)>>
          ELSE <<224 + (c \div 4096), 128 + ((c \div 64) % 64), 128 + (c % 64)>>)
         \o TCHARToUTF8(Tail(str))

\* Strings the owner passes to SendJsonString: "{}" and an e-acute.
JsonStrings == { <<123, 125>>, <<233>> }

\* What FSocket::SendTo can report for Count bytes: failure, or success
\* with the number of bytes the system took (which may be fewer than Count).
SendToOutcomes(Count) ==
    {[bOK |-> FALSE, BytesSent |-> 0 - 1]}
        \cup {[bOK |-> TRUE, BytesSent |-> n] : n \in 0..Count}

\* IsConnected()
IsConnected == bConnected

senderConfig == <<TargetHost, TargetPort, bAutoConnect>>
senderSocket == <<SendSocket, bConnected, sendSockets, nSendCreated>>

\* Variant: the socket is built without the target host being validated.
SenderCreateSocketNoValidation(bBuilt) ==
    IF SendSocket # NoSocket
    THEN [ret |-> TRUE, SendSocket |-> SendSocket, bConnected |-> bConnected,
          sendSockets |-> sendSockets, nSendCreated |-> nSendCreated]
    ELSE IF ~bBuilt
    THEN [ret |-> FALSE, SendSocket |-> NoSocket, bConnected |-> bConnected,
          sendSockets |-> sendSockets, nSendCreated |-> nSendCreated]
    ELSE [ret |-> TRUE, SendSocket |-> nSendCreated + 1, bConnected |-> TRUE,
          sendSockets |-> sendSockets \cup {nSendCreated + 1},
          nSendCreated |-> nSendCreated + 1]

\* UUDPJsonSenderComponent::CreateSocket(): the return value and the fields
\* after the call; bBuilt is whether FUdpSocketBuilder returns a socket.
SenderCreateSocket(bBuilt) ==
    IF SendSocket # NoSocket
    THEN [ret |-> TRUE, SendSocket |-> SendSocket, bConnected |-> bConnected,
          sendSockets |-> sendSockets, nSendCreated |-> nSendCreated]
    ELSE IF ~SetIp(TargetHost).bIsValid
    THEN [ret |-> FALSE, SendSocket |-> SendSocket, bConnected |-> bConnected,
          sendSockets |-> sendSockets, nSendCreated |-> nSendCreated]
    ELSE IF ~bBuilt
    THEN [ret |-> FALSE, SendSocket |-> NoSocket, bConnected |-> bConnected,
          sendSockets |-> sendSockets, nSendCreated |-> nSendCreated]
    ELSE [ret |-> TRUE, SendSocket |-> nSendCreated + 1, bConnected |-> TRUE,
          sendSockets |-> sendSockets \cup {nSendCreated + 1},
          nSendCreated |-> nSendCreated + 1]

\* CreateSocket() reaches FUdpSocketBuilder and gets no socket from it.
BuildFails(bBuilt) ==
    SendSocket = NoSocket /\ SetIp(TargetHost).bIsValid /\ ~bBuilt

\* The fields take the values CreateSocket() left.
SenderSocketBecomes(c) ==
    /\ SendSocket' = c.SendSocket
    /\ bConnected' = c.bConnected
    /\ sendSockets' = c.sendSockets
    /\ nSendCreated' = c.nSendCreated

\* Connect() { return CreateSocket(); }
ConnectCall(bBuilt) ==
    LET c == SenderCreateSocket(bBuilt) IN
    /\ SenderSocketBecomes(c)
    /\ lastSenderCall' = [NoSenderCall EXCEPT
           !.op = "Connect", !.ret = c.ret,
           !.hadSocket = (SendSocket # NoSocket),
           !.bIsValid = SetIp(TargetHost).bIsValid,
           !.buildFailed = BuildFails(bBuilt)]

\* Variant: the flag is cleared but the socket is neither closed nor
\* forgotten.
SenderDestroySocketFlagOnly ==
    /\ bConnected' = FALSE
    /\ UNCHANGED <<SendSocket, sendSockets>>

\* Variant: the pointer and the flag are cleared but the socket is not
\* closed.
SenderDestroySocketNoClose ==
    /\ SendSocket' = NoSocket
    /\ bConnected' = FALSE
    /\ UNCHANGED sendSockets

\* UUDPJsonSenderComponent::DestroySocket()
SenderDestroySocket ==
    /\ sendSockets' = IF SendSocket # NoSocket
                      THEN sendSockets \ {SendSocket} ELSE sendSockets
    /\ SendSocket' = NoSocket
    /\ bConnected' = FALSE

\* Disconnect() { DestroySocket(); }
DisconnectCall ==
    /\ SenderDestroySocket
    /\ lastSenderCall' = [NoSenderCall EXCEPT
           !.op = "Disconnect", !.ret = TRUE,
           !.hadSocket = (SendSocket # NoSocket)]
    /\ UNCHANGED nSendCreated

\* The datagram SendTo puts on the wire: the bytes the system took and the
\* address they go to.
Datagram(Conv, BytesSent) ==
    [host |-> SetIp(TargetHost).ip, port |-> TargetPort,
     bytes |-> SubSeq(Conv, 1, BytesSent)]

\* The socket and flag as they are: what SendJsonString works with when a
\* socket is already open.
SenderSocketNow ==
    [ret |-> TRUE, SendSocket |-> SendSocket, bConnected |-> bConnected,
     sendSockets |-> sendSockets, nSendCreated |-> nSendCreated]

\* The record of a SendJsonString call before its outcome is known.
SendRecord(JsonString, bBuilt) ==
    [NoSenderCall EXCEPT
        !.op = "SendJsonString",
        !.hadSocket = (SendSocket # NoSocket),
        !.bIsValid = SetIp(TargetHost).bIsValid,
        !.buildFailed = BuildFails(bBuilt),
        !.Length = Len(TCHARToUTF8(JsonString))]

\* Variant: without a socket the call fails; nothing is created.
SendJsonStringCallNoLazyCreate(JsonString, bBuilt, out) ==
    LET Conv == TCHARToUTF8(JsonString)
        rec == SendRecord(JsonString, bBuilt)
    IN  IF SendSocket = NoSocket \/ ~SetIp(TargetHost).bIsValid
        THEN /\ lastSenderCall' = rec
             /\ UNCHANGED <<senderSocket, wire>>
        ELSE /\ wire' = IF out.bOK
                        THEN Append(wire, Datagram(Conv, out.BytesSent))
                        ELSE wire
             /\ lastSenderCall' = [rec EXCEPT !.ret = out.bOK, !.attempts = 1,
                                      !.bOK = out.bOK, !.BytesSent = out.BytesSent]
             /\ UNCHANGED senderSocket

\* Variant: a failed SendTo is tried once more.
SendJsonStringCallRetry(JsonString, bBuilt, out) ==
    LET c == IF SendSocket = NoSocket
             THEN SenderCreateSocket(bBuilt) ELSE SenderSocketNow
        Conv == TCHARToUTF8(JsonString)
        rec == SendRecord(JsonString, bBuilt)
    IN  /\ SenderSocketBecomes(c)
        /\ IF ~c.ret \/ ~SetIp(TargetHost).bIsValid
           THEN /\ lastSenderCall' = rec
                /\ UNCHANGED wire
           ELSE IF out.bOK
           THEN /\ wire' = Append(wire, Datagram(Conv, out.BytesSent))
                /\ lastSenderCall' = [rec EXCEPT !.ret = TRUE, !.attempts = 1,
                                         !.bOK = TRUE, !.BytesSent = out.BytesSent]
           ELSE /\ wire' = Append(wire, Datagram(Conv, Len(Conv)))
                /\ lastSenderCall' = [rec EXCEPT !.ret = TRUE, !.attempts = 2,
                                         !.bOK = TRUE, !.BytesSent = Len(Conv)]

\* Variant: a call that fails closes the socket.
SendJsonStringCallCloseOnFailure(JsonString, bBuilt, out) ==
    LET c == IF SendSocket = NoSocket
             THEN SenderCreateSocket(bBuilt) ELSE SenderSocketNow
        Conv == TCHARToUTF8(JsonString)
        rec == SendRecord(JsonString, bBuilt)
        closed == [c EXCEPT !.SendSocket = NoSocket, !.bConnected = FALSE,
                            !.sendSockets = c.sendSockets \ {c.SendSocket}]
    IN  IF ~c.ret \/ ~SetIp(TargetHost).bIsValid
        THEN /\ SenderSocketBecomes(closed)
             /\ lastSenderCall' = rec
             /\ UNCHANGED wire
        ELSE /\ SenderSocketBecomes(IF out.bOK THEN c ELSE closed)
             /\ wire' = IF out.bOK
                        THEN Append(wire, Datagram(Conv, out.BytesSent))
                        ELSE wire
             /\ lastSenderCall' = [rec EXCEPT !.ret = out.bOK, !.attempts = 1,
                                      !.bOK = out.bOK, !.BytesSent = out.BytesSent]

\* SendJsonString(JsonString): bBuilt is whether FUdpSocketBuilder returns a
\* socket (if asked), out is what SendTo reports (if called).
SendJsonStringCall(JsonString, bBuilt, out) ==
    LET c == IF SendSocket = NoSocket
             THEN SenderCreateSocket(bBuilt) ELSE SenderSocketNow
        Conv == TCHARToUTF8(JsonString)
        rec == SendRecord(JsonString, bBuilt)
    IN  /\ SenderSocketBecomes(c)
        /\ IF ~c.ret
           THEN /\ lastSenderCall' = rec
                /\ UNCHANGED wire
           ELSE IF ~SetIp(TargetHost).bIsValid
           THEN /\ lastSenderCall' = rec
                /\ UNCHANGED wire
           ELSE /\ wire' = IF out.bOK
                           THEN Append(wire, Datagram(Conv, out.BytesSent))
                           ELSE wire
                /\ lastSenderCall' = [rec EXCEPT !.ret = out.bOK, !.attempts = 1,
                                         !.bOK = out.bOK, !.BytesSent = out.BytesSent]

\* ------------------------------------------------------ sender actions
Connect ==
    /\ SendSocket # NoSocket \/ nSendCreated < MaxConnects
    /\ \E bBuilt \in BOOLEAN : ConnectCall(bBuilt)
    /\ UNCHANGED <<senderConfig, wire, receiverVars, libVars>>

Disconnect ==
    /\ DisconnectCall
    /\ UNCHANGED <<senderConfig, wire, receiverVars, libVars>>

SendJsonString(JsonString) ==
    /\ SendSocket # NoSocket \/ nSendCreated < MaxConnects
    /\ Len(wire) < MaxSends
    /\ \E bBuilt \in BOOLEAN, out \in SendToOutcomes(Len(TCHARToUTF8(JsonString))) :
           SendJsonStringCall(JsonString, bBuilt, out)
    /\ UNCHANGED <<senderConfig, receiverVars, libVars>>

\* UUDPJsonSenderComponent::BeginPlay(): if (bAutoConnect) Connect();
SenderBeginPlay ==
    /\ IF bAutoConnect
       THEN /\ SendSocket # NoSocket \/ nSendCreated < MaxConnects
            /\ \E bBuilt \in BOOLEAN : ConnectCall(bBuilt)
       ELSE UNCHANGED <<senderSocket, lastSenderCall>>
    /\ UNCHANGED <<senderConfig, wire, receiverVars, libVars>>

\* UUDPJsonSenderComponent::EndPlay(): Disconnect();
SenderEndPlay ==
    /\ DisconnectCall
    /\ UNCHANGED <<senderConfig, wire, receiverVars, libVars>>

\* The owner edits the sender's properties between calls.
SetTargetHost(h) ==
    /\ h # TargetHost
    /\ TargetHost' = h
    /\ UNCHANGED <<TargetPort, bAutoConnect, senderSocket, wire, lastSenderCall,
                   receiverVars, libVars>>

SetTargetPort(p) ==
    /\ p # TargetPort
    /\ TargetPort' = p
    /\ UNCHANGED <<TargetHost, bAutoConnect, senderSocket, wire, lastSenderCall,
                   receiverVars, libVars>>

SetAutoConnect(b) ==
    /\ b # bAutoConnect
    /\ bAutoConnect' = b
    /\ UNCHANGED <<TargetHost, TargetPort, senderSocket, wire, lastSenderCall,
                   receiverVars, libVars>>

NextSender ==
    \/ Connect
    \/ Disconnect
    \/ \E s \in JsonStrings : SendJsonString(s)
    \/ SenderBeginPlay
    \/ SenderEndPlay
    \/ \E h \in TargetHosts : SetTargetHost(h)
    \/ \E p \in TargetPorts : SetTargetPort(p)
    \/ \E b \in BOOLEAN : SetAutoConnect(b)

SpecSender == Init /\ [][NextSender]_vars

\* ========================================= callers of ParsePeopleCountPacket
\* Elements a sensors array is built from: {"id":"A","count":3},
\* {"id":"","count":5}, {"count":4}, {"id":"A","count":9},
\* {"id":"a","count":1}, the number 7, and {"id":7,"count":2}.
SensorElems ==
    { [Type |-> "Object", idType |-> "String", id |-> <<65>>, count |-> 3],
      [Type |-> "Object", idType |-> "String", id |-> << >>, count |-> 5],
      [Type |-> "Object", idType |-> "None", id |-> << >>, count |-> 4],
      [Type |-> "Object", idType |-> "String", id |-> <<65>>, count |-> 9],
      [Type |-> "Object", idType |-> "String", id |-> <<97>>, count |-> 1],
      [Type |-> "Number", idType |-> "None", id |-> << >>, count |-> 7],
      [Type |-> "Object", idType |-> "Number", id |-> <<55>>, count |-> 2] }

\* The JSON text of one element.
ElemText(e) ==
    IF e.Type = "Number" THEN NatText(e.count)
    ELSE <<123>>
         \o (IF e.idType = "String"
             THEN <<34, 105, 100, 34, 58>> \o <<34>> \o e.id \o <<34, 44>>
             ELSE IF e.idType = "Number"
             THEN <<34, 105, 100, 34, 58>> \o e.id \o <<44>>
             ELSE << >>)
         \o <<34, 99, 111, 117, 110, 116, 34,
             58>> \o NatText(e.count) \o <<125>>

\* The texts of the elements, separated by commas.
RECURSIVE ElemsText(_)
ElemsText(es) ==
    IF es = << >> THEN << >>
    ELSE IF Len(es) = 1 THEN ElemText(es[1])
    ELSE ElemText(es[1]) \o <<44>> \o ElemsText(Tail(es))

\* {"timestamp":12.5,"sensors":[ ... ]}
SnapshotText(es) ==
    <<123, 34, 116, 105, 109, 101, 115, 116, 97, 109, 112, 34, 58, 49, 50,
        46, 53, 44, 34, 115, 101, 110, 115, 111, 114, 115, 34, 58, 91>>
        \o ElemsText(es) \o <<93, 125>>

\* Sequences of at most n elements.
RECURSIVE ElemSeqs(_)
ElemSeqs(n) ==
    IF n = 0 THEN {<< >>}
    ELSE ElemSeqs(n - 1)
             \cup {Append(es,
                 e) : es \in {x \in ElemSeqs(n - 1) : Len(x) = n - 1},
                                   e \in SensorElems}

\* Packets that are a JSON object with a sensors array.
Snapshots ==
    {[kind |-> "snapshot", text |-> SnapshotText(es), elems |-> es] :
         es \in ElemSeqs(MaxElems)}

\* Packets cut short: every proper prefix of a snapshot with at most one
\* sensor.
Truncated ==
    UNION {{[kind |-> "truncated", text |-> SubSeq(SnapshotText(es), 1, n),
             elems |-> << >>] : n \in 0..Len(SnapshotText(es)) - 1} :
               es \in ElemSeqs(1)}

\* Packets whose top level is not an object: [], [{"id":"A","count":3}],
\* 7, "x", true, null.
NonObjects ==
    {[kind |-> "nonobject", text |-> t, elems |-> << >>] :
         t \in { <<91, 93>>,
                 <<91, 123, 34, 105, 100, 34, 58, 34, 65, 34, 44, 34, 99,
                     111, 117, 110, 116, 34, 58, 51, 125, 93>>,
                 <<55>>, <<34, 120, 34>>,
                 <<116, 114, 117, 101>>, <<110, 117, 108, 108>> }}

\* Objects whose fields have the wrong types: {"sensors":5},
\* {"sensors":"x"}, {"sensors":{"id":"A","count":3}},
\* {"timestamp":"x","sensors":[]}, {"sensors":null}.
WrongTypes ==
    {[kind |-> "wrongtypes", text |-> t, elems |-> << >>] :
         t \in { <<123, 34, 115, 101, 110, 115, 111, 114, 115, 34, 58, 53,
             125>>,
                 <<123, 34, 115, 101, 110, 115, 111, 114, 115, 34, 58, 34,
                     120, 34, 125>>,
                 <<123, 34, 115, 101, 110, 115, 111, 114, 115, 34, 58, 123,
                     34, 105, 100, 34, 58, 34, 65, 34, 44, 34, 99, 111, 117,
                         110, 116, 34, 58, 51, 125, 125>>,
                 <<123, 34, 116, 105, 109, 101, 115, 116, 97, 109, 112, 34,
                     58, 34, 120, 34, 44, 34, 115, 101, 110, 115, 111, 114,
                         115, 34, 58, 91, 93, 125>>,
                 <<123, 34, 115, 101, 110, 115, 111, 114, 115, 34, 58, 110,
                     117, 108, 108, 125>> }}

\* The bytes of the command {"cmd":"capture"} as the sender puts them on the
\* wire.
CaptureCommand ==
    TCHARToUTF8(<<123, 34, 99, 109, 100, 34, 58, 34, 99, 97, 112, 116, 117, 114, 101,
            34, 125>>)

\* JSON objects with some or all of schema, type, timestamp and sensors
\* missing: {}, {"schema":"people_count_v1"}, {"type":"snapshot"},
\* {"timestamp":12.5}, {"sensors":[{"id":"A","count":3}]},
\* {"schema":"people_count_v1","timestamp":12.5}, and the capture command as
\* it arrives in a datagram.
Sparse ==
    {
      [kind |-> "sparse", hasTimestamp |-> FALSE, hasSensors |-> FALSE,
          elems |-> << >>,
       text |-> <<123, 125>>],
      [kind |-> "sparse", hasTimestamp |-> FALSE, hasSensors |-> FALSE,
          elems |-> << >>,
       text |-> <<123, 34, 115, 99, 104, 101, 109,
              97, 34, 58, 34, 112, 101, 111, 112, 108, 101, 95, 99, 111, 117,
                  110, 116, 95, 118, 49, 34, 125>>],
      [kind |-> "sparse", hasTimestamp |-> FALSE, hasSensors |-> FALSE,
          elems |-> << >>,
       text |-> <<123, 34, 116, 121, 112, 101, 34,
              58, 34, 115, 110, 97, 112, 115, 104, 111, 116, 34, 125>>],
      [kind |-> "sparse", hasTimestamp |-> TRUE, hasSensors |-> FALSE,
          elems |-> << >>,
       text |-> <<123, 34, 116, 105, 109, 101,
              115, 116, 97, 109, 112, 34, 58, 49, 50, 46, 53, 125>>],
      [kind |-> "sparse", hasTimestamp |-> FALSE, hasSensors |-> TRUE,
          elems |-> << >>,
       text |-> <<123, 34, 115, 101, 110, 115,
              111, 114, 115, 34, 58, 91, 123, 34, 105, 100, 34, 58, 34, 65,
                  34, 44, 34, 99, 111, 117, 110, 116, 34, 58, 51, 125, 93,
                      125>>],
      [kind |-> "sparse", hasTimestamp |-> TRUE, hasSensors |-> FALSE,
          elems |-> << >>,
       text |-> <<123, 34, 115, 99, 104, 101, 109,
              97, 34, 58, 34, 112, 101, 111, 112, 108, 101, 95, 99, 111, 117,
                  110, 116, 95, 118, 49, 34, 44, 34, 116, 105, 109, 101, 115,
                      116, 97, 109, 112, 34, 58, 49, 50, 46, 53, 125>>],
      [kind |-> "sparse", hasTimestamp |-> FALSE, hasSensors |-> FALSE, elems |-> << >>,
       text |-> UTF8ToTCHAR(CaptureCommand)] }

Packets == Snapshots \cup Truncated \cup NonObjects \cup WrongTypes \cup Sparse

\* A caller holds a text it has not passed to the library yet.
InitCaller ==
    /\ InitReceiver
    /\ InitSender
    /\ packet \in Packets
    /\ parsed = NotParsed

\* The caller calls ParsePeopleCountPacket(packet.text, OutSensors,
\* OutTimestamp) and keeps what it returns.
ParseCall ==
    /\ ~parsed.called
    /\ LET r == ParsePeopleCountPacket(packet.text) IN
       parsed' = [called |-> TRUE, ret |-> r.ret, OutSensors |-> r.OutSensors,
                  OutTimestamp |-> r.OutTimestamp]
    /\ UNCHANGED <<packet, receiverVars, senderVars>>

NextCaller == ParseCall

SpecCaller == InitCaller /\ [][NextCaller]_vars

\* ============================================ both components of an actor
\* The owner's calls on a receiver and a sender, the engine's BeginPlay and
\* EndPlay on both, the two auto flags, and the receiver thread's return when
\* it is told to stop.
NextLifecycle ==
    \/ BeginPlay
    \/ EndPlay
    \/ StartReceiver
    \/ StopReceiver
    \/ StopReceiverJoin
    \/ \E b \in BOOLEAN : SetAutoStart(b)
    \/ \E r \in Receivers : ReceiverExit(r)
    \/ SenderBeginPlay
    \/ SenderEndPlay
    \/ Connect
    \/ Disconnect
    \/ \E str \in JsonStrings : SendJsonString(str)
    \/ \E b \in BOOLEAN : SetAutoConnect(b)

SpecLifecycle == Init /\ [][NextLifecycle]_vars

\* ------------------------------------------------------------- properties
\* A StopReceiver call has returned and no StartReceiver call came after it.
StoppedByOwner == gamePc = "idle" /\ lastCall.op = "StopReceiver"

Broadcasts == Len(delivered') = Len(delivered) + 1

\* C1: no OnJsonReceived broadcast happens after a StopReceiver call has
\* returned and before the next StartReceiver call.
C1_NoBroadcastAfterStop == [][Broadcasts => ~StoppedByOwner]_vars

\* C2: every OnJsonReceived broadcast is made by the game thread, which takes
\* the oldest task off the queue; the step is no step of a receiver thread
\* and records the game thread as the caller.
C2_BroadcastOnlyOnGameThread ==
    [][delivered' # delivered =>
          /\ gamePc = "idle"
          /\ gameQueue # << >>
          /\ gameQueue' = Tail(gameQueue)
          /\ Broadcasts
          /\ delivered'[Len(delivered')].thread = "GameThread"
          /\ delivered'[Len(delivered')].id = Head(gameQueue).id
          /\ UNCHANGED receivers]_vars

\* C2 witness: a datagram handled by the receiver thread has been broadcast.
C2_Witness ==
    /\ Len(delivered) >= 1
    /\ \E r \in DOMAIN receivers : receivers[r].pc \in {"poll", "pending"}

\* C3: broadcasts happen in the order in which the datagrams arrived, and the
\* tasks still queued will be served in that order too.
C3_ArrivalOrderPreserved ==
    LET order == [i \in 1..Len(delivered) |-> delivered[i].id]
                     \o [i \in 1..Len(gameQueue) |-> gameQueue[i].id]
    IN  \A i, j \in 1..Len(order) : i < j => order[i] < order[j]

\* C3 witness: two datagrams were queued together and both were broadcast.
C3_Witness ==
    /\ Len(delivered) >= 2
    /\ delivered[1].backlog >= 1

\* Number of entries of a log or queue that carry datagram d.
Count(seq, d) == Cardinality({i \in 1..Len(seq) : seq[i].id = d})

Decodes(JsonStr) == ParsePeopleCountPacket(JsonStr).ret

C5_RunningIffSocketAndLoop ==
    gamePc = "idle" =>
        (IsRunning <=> (ListenSocket \in DOMAIN sockets /\ ThreadLive(SocketReceiver)))

\* C5 witness: between calls, a receiver started for the second time is
\* running while ListenAddress has been edited to a value that does not parse.
C5_Witness ==
    /\ gamePc = "idle"
    /\ IsRunning
    /\ nCreated = 2
    /\ ~SetIp(ListenAddress).bIsValid

StartStep == StartReceiver \/ (bAutoStart /\ BeginPlay)
StopStep == StopReceiver \/ EndPlay

\* C6: StartReceiver while running returns true and changes neither the
\* socket, nor the receiver thread, nor the running flag; nothing is created.
C6_StartWhileRunningNoOp ==
    [][(bRunning /\ StartStep) =>
          /\ lastCall'.op = "StartReceiver"
          /\ lastCall'.ret
          /\ UNCHANGED <<component, sockets, receivers, nCreated>>]_vars

\* C6 witness: StartReceiver returned true on a running receiver whose socket
\* is bound to another address and port than the properties now name.
C6_Witness ==
    /\ lastCall.op = "StartReceiver" /\ lastCall.wasRunning /\ lastCall.ret
    /\ bRunning
    /\ ListenSocket \in DOMAIN sockets
    /\ sockets[ListenSocket].addr # ListenAddress
    /\ sockets[ListenSocket].port # ListenPort

\* C7: StopReceiver while stopped changes nothing and returns: socket and
\* receiver stay absent, the flag stays false, the game thread goes on.
C7_StopWhileStoppedNoOp ==
    [][(~bRunning /\ StopStep) =>
          /\ ListenSocket = NoSocket
          /\ SocketReceiver = NoReceiver
          /\ UNCHANGED <<component, sockets, receivers, gamePc>>]_vars

\* C7 witness: StopReceiver was called on a receiver that had been running
\* and was already stopped.
C7_Witness ==
    /\ lastCall.op = "StopReceiver" /\ ~lastCall.wasRunning
    /\ nCreated >= 1
    /\ gamePc = "idle"

\* C8: StartReceiver while stopped succeeds exactly when the address parses
\* and the socket can be created and bound, whatever happened before; when it
\* fails, no socket and no receiver thread exist and IsRunning() is false.
C8_FailedStartStaysStopped ==
    [][(~bRunning /\ StartStep) =>
          /\ lastCall'.op = "StartReceiver"
          /\ lastCall'.ret = (SetIp(ListenAddress).bIsValid /\ ~lastCall'.bindFailed)
          /\ lastCall'.ret => (bRunning' /\ ListenSocket' \in DOMAIN sockets')
          /\ ~lastCall'.ret =>
                /\ ~bRunning'
                /\ ListenSocket' = NoSocket
                /\ SocketReceiver' = NoReceiver
                /\ UNCHANGED <<sockets, receivers>>]_vars

\* C8 witness: a StartReceiver call has failed, the receiver is stopped, and
\* the address is valid again so that the next call can succeed.
C8_Witness ==
    /\ lastCall.op = "StartReceiver" /\ ~lastCall.wasRunning /\ ~lastCall.ret
    /\ ~IsRunning
    /\ sockets = << >>
    /\ SetIp(ListenAddress).bIsValid
    /\ nCreated < MaxStarts
    /\ gamePc = "idle"

\* The receive loop of the current receiver has ended on a socket failure.
LoopFailed == SocketReceiver \in DOMAIN receivers /\ receivers[SocketReceiver].pc = "failed"

\* C9: once the receive loop has ended on a socket failure, IsRunning() is
\* false.
C9_LoopFailureClearsRunning == (gamePc = "idle" /\ LoopFailed) => ~IsRunning

\* After a successful StartReceiver, with no StopReceiver call and no socket
\* failure since, the receiver is running and its loop is live, whatever
\* datagrams were received.
RunningUnlessStopped ==
    (lastCall.op = "StartReceiver" /\ lastCall.ret /\ ~LoopFailed) =>
        /\ IsRunning
        /\ ListenSocket \in DOMAIN sockets
        /\ ThreadLive(SocketReceiver)

\* Datagram d waits in the buffer of the listen socket of a running receiver
\* and its payload decodes.
PendingWellFormed(d) ==
    /\ IsRunning
    /\ ListenSocket \in DOMAIN sockets
    /\ \E k \in 1..Len(sockets[ListenSocket].buf) :
           /\ sockets[ListenSocket].buf[k].id = d
           /\ Decodes(UTF8ToTCHAR(sockets[ListenSocket].buf[k].bytes))

\* C10: a malformed datagram never stops the receiver: unless StopReceiver is
\* called, the receiver stays running with a live loop whatever datagrams it
\* has received, and every well-formed datagram that waits in its socket is
\* broadcast to the consumer.
C10_MalformedNeverStops ==
    /\ []RunningUnlessStopped
    /\ \A d \in 1..MaxDatagrams :
           PendingWellFormed(d) ~> (Count(delivered, d) = 1 \/ ~IsRunning)

\* C10 witness: a well-formed datagram was broadcast after a malformed one,
\* both received by the one receiver started and never stopped.
C10_Witness ==
    /\ lastCall.op = "StartReceiver" /\ lastCall.ret /\ ~LoopFailed
    /\ nCreated = 1
    /\ Len(delivered) = 2
    /\ ~Decodes(delivered[1].JsonStr)
    /\ Decodes(delivered[2].JsonStr)

\* C11: under every sequence of StartReceiver and StopReceiver calls (rapid
\* cycles and failed starts included) the receiver holds at most one open
\* socket and at most one receive loop at any time, and once a StopReceiver
\* call has returned it holds none.
C11_AtMostOneSocketAndLoop ==
    /\ Cardinality(DOMAIN sockets) <= 1
    /\ Cardinality(DOMAIN receivers) <= 1
    /\ StoppedByOwner => (sockets = << >> /\ receivers = << >>)

\* A second start/stop cycle has completed: two sockets and two loops were
\* created over time, a stop has returned, and none is left.
C11_Witness ==
    /\ StoppedByOwner
    /\ lastCall.wasRunning
    /\ nCreated = MaxStarts
    /\ sockets = << >>

\* ---------------------------------------------------- sender properties
ConnectStep == Connect \/ (bAutoConnect /\ SenderBeginPlay)
DisconnectStep == Disconnect \/ SenderEndPlay
SendStep == \E str \in JsonStrings : SendJsonString(str)

\* The component's socket is open at the operating system.
SendSocketOpen == SendSocket # NoSocket /\ SendSocket \in sendSockets

\* C12: in every state reachable by Connect, Disconnect, SendJsonString,
\* BeginPlay and EndPlay calls, succeeding or failing, IsConnected() is true
\* exactly when the sender's socket is open (and the sender has no other
\* socket open).
C12_ConnectedIffSocketOpen ==
    /\ IsConnected <=> SendSocketOpen
    /\ IsConnected <=> (sendSockets # {})

\* A send has failed on an open socket and the sender is still connected.
C12_Witness ==
    /\ lastSenderCall.op = "SendJsonString"
    /\ lastSenderCall.attempts = 1
    /\ ~lastSenderCall.ret
    /\ IsConnected
    /\ SendSocketOpen

\* C13: Connect returns failure whenever the target host does not parse or
\* the socket cannot be created, in every sender state (also with a socket
\* already open); a Connect that fails from the disconnected state leaves no
\* socket and IsConnected() false.
C13_ConnectFailsOnBadHost ==
    lastSenderCall.op = "Connect" =>
        /\ (~lastSenderCall.bIsValid \/ lastSenderCall.buildFailed)
               => ~lastSenderCall.ret
        /\ (~lastSenderCall.hadSocket /\ ~lastSenderCall.ret)
               => (SendSocket = NoSocket /\ sendSockets = {} /\ ~IsConnected)

\* C14: SendJsonString called with no socket open first creates the socket;
\* if that succeeds SendTo is called and IsConnected() is true afterwards
\* whatever SendTo reports; if it fails the call returns false, SendTo is not
\* called, nothing reaches the wire and IsConnected() stays false.
C14_SendCreatesSocketLazily ==
    [][(SendStep /\ SendSocket = NoSocket) =>
          IF SetIp(TargetHost).bIsValid /\ ~lastSenderCall'.buildFailed
          THEN /\ lastSenderCall'.attempts = 1
               /\ lastSenderCall'.ret = lastSenderCall'.bOK
               /\ IsConnected'
               /\ SendSocketOpen'
          ELSE /\ ~lastSenderCall'.ret
               /\ lastSenderCall'.attempts = 0
               /\ wire' = wire
               /\ ~IsConnected'
               /\ sendSockets' = {}]_vars

\* SendJsonString created the socket, SendTo then failed, and the sender is
\* connected.
C14_Witness ==
    /\ lastSenderCall.op = "SendJsonString"
    /\ ~lastSenderCall.hadSocket
    /\ lastSenderCall.attempts = 1
    /\ ~lastSenderCall.bOK
    /\ ~lastSenderCall.ret
    /\ IsConnected

\* C15: a SendJsonString call calls SendTo at most once; a call that returns
\* true has put exactly one datagram on the wire, addressed to the TargetHost
\* and TargetPort current at the call; a call whose SendTo fails returns
\* false and puts nothing on the wire (no retry).
C15_OneAttemptPerSend ==
    [][SendStep =>
          /\ lastSenderCall'.attempts <= 1
          /\ lastSenderCall'.ret =>
                 /\ Len(wire') = Len(wire) + 1
                 /\ SubSeq(wire', 1, Len(wire)) = wire
                 /\ wire'[Len(wire')].host = TargetHost
                 /\ wire'[Len(wire')].port = TargetPort
          /\ ~lastSenderCall'.ret => wire' = wire
          /\ (lastSenderCall'.attempts = 1 /\ ~lastSenderCall'.bOK)
                 => ~lastSenderCall'.ret]_vars

\* A successful send went to a target other than the default one.
C15_Witness ==
    /\ lastSenderCall.op = "SendJsonString"
    /\ lastSenderCall.ret
    /\ Len(wire) >= 1
    /\ wire[Len(wire)].host # "127.0.0.1"
    /\ wire[Len(wire)].port # DefaultTargetPort

\* C16: SendJsonString returns false whenever the system reports fewer bytes
\* sent than the payload has, also when SendTo reports success; it returns
\* true only when the whole payload was sent.
C16_PartialSendIsFailure ==
    lastSenderCall.op = "SendJsonString" =>
        /\ (lastSenderCall.attempts = 1
              /\ lastSenderCall.BytesSent < lastSenderCall.Length)
               => ~lastSenderCall.ret
        /\ lastSenderCall.ret
               => lastSenderCall.BytesSent = lastSenderCall.Length

\* C17: SendJsonString with a target host that does not parse, or with a
\* failing SendTo, returns false; with the invalid target SendTo is not
\* called and nothing reaches the wire; in both cases a socket that was open
\* before the call is still open after it.
C17_FailedSendKeepsSocket ==
    [][SendStep =>
          /\ (~SetIp(TargetHost).bIsValid
                \/ (lastSenderCall'.attempts = 1 /\ ~lastSenderCall'.bOK))
                 => ~lastSenderCall'.ret
          /\ ~SetIp(TargetHost).bIsValid
                 => (lastSenderCall'.attempts = 0 /\ wire' = wire)
          /\ (~lastSenderCall'.ret /\ SendSocket # NoSocket)
                 => /\ SendSocket' = SendSocket
                    /\ sendSockets' = sendSockets
                    /\ IsConnected']_vars

\* A send to a target that does not parse has failed with the socket open.
C17_Witness ==
    /\ lastSenderCall.op = "SendJsonString"
    /\ lastSenderCall.hadSocket
    /\ ~lastSenderCall.bIsValid
    /\ ~lastSenderCall.ret
    /\ SendSocketOpen

\* C18: Disconnect always succeeds: a socket that was open is closed and
\* released, afterwards the sender has no socket and IsConnected() is false;
\* on a disconnected sender it changes nothing.  (That a later Connect opens
\* a new socket is the state C18_Witness describes.)
C18_DisconnectReleasesSocket ==
    [][DisconnectStep =>
          /\ lastSenderCall'.ret
          /\ SendSocket' = NoSocket
          /\ sendSockets' = {}
          /\ ~IsConnected'
          /\ SendSocket = NoSocket
                 => UNCHANGED <<senderConfig, senderSocket, wire>>]_vars

\* After a socket was opened and released, Connect has opened a second one.
C18_Witness ==
    /\ lastSenderCall.op = "Connect"
    /\ ~lastSenderCall.hadSocket
    /\ lastSenderCall.ret
    /\ nSendCreated >= 2
    /\ SendSocketOpen

\* --------------------------------------------------- library properties
\* An array element the packet format calls valid: a JSON object whose id is
\* a non-empty string.
ValidElem(e) == e.Type = "Object" /\ e.idType = "String" /\ e.id # << >>

\* The mapping from each id of a valid element to the count of the last
\* valid element with that id.
LastWins(es) ==
    LET valid == {i \in 1..Len(es) : ValidElem(es[i])}
        last(id) == CHOOSE i \in valid :
                        /\ es[i].id = id
                        /\ \A j \in valid : es[j].id = id => j <= i
    IN  [id \in {es[i].id : i \in valid} |-> es[last(id)].count]

\* C19: for every JSON object with a sensors array, ParsePeopleCountPacket
\* returns a mapping with exactly the ids of the elements that are JSON
\* objects with a non-empty string id, each mapped to the count of the last
\* such element; other elements are skipped.
C19_LastValidElementWins ==
    (parsed.called /\ packet.kind = "snapshot") =>
        /\ parsed.ret
        /\ parsed.OutSensors = LastWins(packet.elems)

\* C20 as stated: for every malformed input (truncated text, a top level
\* that is no object, fields of wrong types) ParsePeopleCountPacket returns
\* false.
C20_MalformedAlwaysFails ==
    (parsed.called /\ packet.kind \in {"truncated", "nonobject", "wrongtypes"})
        => ~parsed.ret

\* C20: for a truncated text and for a text whose top level is no JSON
\* object ParsePeopleCountPacket returns false with an empty mapping and
\* timestamp 0; for a JSON object whose fields have the wrong types it
\* returns true, with the defaults (empty mapping, timestamp 0) in place of
\* the fields it could not read.
C20_MalformedTextFails ==
    parsed.called =>
        /\ packet.kind \in {"truncated", "nonobject"} =>
               /\ ~parsed.ret
               /\ parsed.OutSensors = << >>
               /\ parsed.OutTimestamp = Zero
        /\ packet.kind = "wrongtypes" =>
               /\ parsed.ret
               /\ parsed.OutSensors = << >>
               /\ parsed.OutTimestamp = Zero

\* An object whose sensors field is no array has been decoded.
C20_Witness ==
    /\ parsed.called
    /\ packet.kind = "wrongtypes"
    /\ parsed.ret

\* The timestamp 12.5 the packets carry.
TwelveAndAHalf == [Type |-> "Number", neg |-> FALSE, whole |-> 12, frac |-> <<53>>]

\* C21: ParsePeopleCountPacket returns true on every JSON object, also with
\* schema, type, timestamp or sensors missing: a missing timestamp decodes
\* as 0.0, a missing or non-array sensors field as the empty mapping, and
\* fields that are present are decoded; the capture command decodes to true
\* with the empty mapping and timestamp 0.
C21_MissingFieldsDecode ==
    parsed.called =>
        /\ packet.kind \in {"sparse", "wrongtypes", "snapshot"} => parsed.ret
        /\ packet.kind = "wrongtypes" => parsed.OutSensors = << >>
        /\ packet.kind = "sparse" =>
               /\ parsed.OutTimestamp =
                      IF packet.hasTimestamp THEN TwelveAndAHalf ELSE Zero
               /\ parsed.OutSensors =
                      IF packet.hasSensors THEN (<<65>> :> 3) ELSE << >>
        /\ packet.text = UTF8ToTCHAR(CaptureCommand) =>
               /\ parsed.ret
               /\ parsed.OutSensors = << >>
               /\ parsed.OutTimestamp = Zero

\* The capture command has been passed to the library and decoded.
C21_Witness ==
    /\ parsed.called
    /\ packet.text = UTF8ToTCHAR(CaptureCommand)
    /\ parsed.ret

\* ------------------------------------------------- StopReceiver ordering
\* Every receiver thread that runs has its socket open.
LoopOnOpenSocket ==
    \A r \in DOMAIN receivers :
        ThreadLive(r) => receivers[r].sock \in DOMAIN sockets

\* A step that closes a socket is taken only when the thread of the receiver
\* on that socket has been told to stop and has returned.
ClosedAfterLoopEnded ==
    \A s \in DOMAIN sockets :
        s \notin DOMAIN sockets' =>
            \A r \in DOMAIN receivers :
                receivers[r].sock = s =>
                    receivers[r].bStopping /\ ~ThreadLive(r)

\* Once StopReceiver has returned no receiver thread runs (so none is in
\* HandlePacket).
NoLoopAfterStop ==
    StoppedByOwner => \A r \in DOMAIN receivers : ~ThreadLive(r)

\* C22: StopReceiver on a running receiver terminates (the join it blocks in
\* returns and the call comes back with socket and receiver released), and
\* works in this order: the loop is signalled and its thread has returned
\* before the socket is closed; a running loop always has its socket open,
\* and no receiver thread runs once StopReceiver has returned.
C22_StopJoinsBeforeClose ==
    /\ []LoopOnOpenSocket
    /\ []NoLoopAfterStop
    /\ [][ClosedAfterLoopEnded]_vars
    /\ (gamePc = "join")
           ~> (StoppedByOwner /\ sockets = << >> /\ receivers = << >>)

\* StopReceiver waits in the join while the receiver thread is inside
\* HandlePacket.
C22_Witness ==
    /\ gamePc = "join"
    /\ lastCall.op = "StopReceiver"
    /\ SocketReceiver \in DOMAIN receivers
    /\ receivers[SocketReceiver].pc = "handle"
    /\ receivers[SocketReceiver].bStopping

\* ------------------------------------------------------ lifecycle binding
\* C23: BeginPlay starts the receiver only if bAutoStart is set (and then
\* makes one StartReceiver call) and connects the sender only if
\* bAutoConnect is set (and then makes one Connect call); EndPlay leaves the
\* receiver not running, with no socket and no receiver thread once the call
\* has returned, and the sender disconnected with no socket, in every state
\* the calls made before can lead to.
C23_LifecycleBinding ==
    /\ [][BeginPlay =>
             IF bAutoStart
             THEN /\ lastCall'.op = "StartReceiver"
                  /\ bRunning' = lastCall'.ret
             ELSE UNCHANGED <<component, sockets, receivers>>]_vars
    /\ [][SenderBeginPlay =>
             IF bAutoConnect
             THEN /\ lastSenderCall'.op = "Connect"
                  /\ IsConnected' = lastSenderCall'.ret
             ELSE UNCHANGED senderSocket]_vars
    /\ [][EndPlay =>
             /\ ~bRunning'
             /\ gamePc' = "idle" =>
                    (ListenSocket' = NoSocket /\ sockets' = << >>
                         /\ receivers' = << >>)]_vars
    /\ [][StopReceiverJoin =>
             /\ ~bRunning'
             /\ gamePc' = "idle"
             /\ ListenSocket' = NoSocket
             /\ sockets' = << >>
             /\ receivers' = << >>]_vars
    /\ [][SenderEndPlay =>
             /\ ~IsConnected'
             /\ SendSocket' = NoSocket
             /\ sendSockets' = {}]_vars

\* Both components have been used and then shut down: the receiver ran and
\* its stop has returned, the sender sent a datagram and was disconnected,
\* and neither holds a socket.
C23_Witness ==
    /\ StoppedByOwner
    /\ lastCall.wasRunning
    /\ ~bRunning
    /\ sockets = << >>
    /\ lastSenderCall.op = "Disconnect"
    /\ lastSenderCall.hadSocket
    /\ wire # << >>
    /\ ~IsConnected
    /\ sendSockets = {}

====
